---------------------------- MODULE Spec2Model ----------------------------
(***************************************************************************)
(* State-machine model of the meetings-recording client.                   *)
(*                                                                         *)
(*   Playback Transport  : the AudioPlayer component (audio-player).       *)
(*   Capture engine      : the AudioRecorder and AudioVisualizer           *)
(*                         components (recorder.tsx).                      *)
(*                                                                         *)
(* React state (useState) and refs (useRef) are variables.  An action is   *)
(* one event handler together with the effects React runs after the        *)
(* re-render that the handler's state updates cause.  The browser objects  *)
(* the components own (HTMLAudioElement, MediaStream) are part of the      *)
(* state; what they do on their own (media events, promise settlement) is  *)
(* an action of the environment.                                           *)
(*                                                                         *)
(* An audio element is a record of the fields the program or the browser   *)
(* reads.  The element audioRef.current is the value of audioRef.  The     *)
(* elements the ref held before are kept in the set released, because      *)
(* they go on emitting events and settling promises; the program holds no  *)
(* reference to them any more, so of each only what can still act on the   *)
(* component is kept: its listeners, with the isReady value they closed    *)
(* over, and its pending play() promise.  Released elements that agree on  *)
(* these are one member of the set, so the number of loads is not bounded. *)
(*                                                                         *)
(* Numbers.  Times and durations are integers counted in ticks of          *)
(* 1/SeekDen second, so that percent * duration is exact for every click   *)
(* position k/SeekDen.  Volumes are integers counted in slider steps of    *)
(* 0.05 (step="0.05"), so 0.8 is 16 and 1 is 20.                           *)
(***************************************************************************)
EXTENDS Integers, Sequences, FiniteSets, TLC

VARIABLES
    \* ---- AudioPlayer: props, useState, useRef ----
    audioUrl,      \* prop audioUrl ("" is the falsy URL)
    isPlaying,     \* useState(false)
    currentTime,   \* useState(0)
    duration,      \* useState(0)
    isReady,       \* useState(false)
    loading,       \* useState(true)
    volume,        \* useState(0.8)
    isMuted,       \* useState(false)
    audioRef,      \* useRef(null): the HTMLAudioElement audioRef.current, or Null
    released,      \* the elements created earlier that audioRef no longer holds
    audioVolume,   \* audioRef.current.volume
    audioMuted,    \* audioRef.current.muted
    \* ---- AudioRecorder: props, useState, useRef ----
    mounted,          \* the recorder (and its visualizer) is mounted
    isProcessing,     \* prop isProcessing (Home's useState(false))
    isRecording,      \* useState(false)
    recordingTime,    \* useState(0)
    isStreaming,      \* useState(false)
    mediaRecorderRef, \* useRef(null): 0, or the stream its MediaRecorder records
    chunksRef,        \* useRef([]): the chunks buffered, each the id of its recorder
    timerRef,         \* useRef(null): TRUE when it holds an interval id
    audioContextRef,  \* useRef(null): "none", or the state of its AudioContext
    processorNodeRef, \* useRef(null): "none", or the state of its processor node
    streamRef,        \* useRef(null): 0, or the stream it holds
    \* ---- AudioVisualizer: useRef ----
    visualizer,       \* audioContextRef, analyserRef, sourceRef, animationFrameRef
    \* ---- browser ----
    streams,          \* the MediaStreams getUserMedia has resolved with
    startPending,     \* getUserMedia requests of startRecording not yet settled
    vizPending,       \* getUserMedia requests of startVisualization not yet settled
    intervals,        \* the setInterval timers of startRecording still running
    runtime,          \* the formats MediaRecorder.isTypeSupported accepts, and
                      \* whether its recorders add their codecs to mimeType
    artifact,         \* the blob last handed to onRecordingComplete
    ticks,            \* timer callbacks run since the last start of a recorder
    \* ---- AudioVisualizer: useState, useRef, and the frames of its loop ----
    amplitudes,       \* useState([0, 0, 0]), in 1/Scale
    recentMaxValues,  \* useRef([0, 0, 0]), in 1/Scale
    frame,            \* the frames run so far: their number, the band maxima
                      \* of the last snapshot, for how many frames in a row
                      \* they have been the same, and how often they changed
    \* ---- transcribeAudio ----
    gateway,          \* the call under way: where it stands, its form data,
                      \* its calls of transcribe, and what it returned
    \* ---- Home ----
    page,             \* useState: transcription, error; the requests of
                      \* transcribeAudio under way, each by its handler, and
                      \* the fetches of the sample audio under way
    \* ---- history ----
    event          \* the operation that produced the current state

playerVars == <<audioUrl, isPlaying, currentTime, duration, isReady, loading,
                volume, isMuted, audioRef, released, audioVolume, audioMuted>>

captureVars == <<mounted, isProcessing, isRecording, recordingTime, isStreaming,
                 mediaRecorderRef, chunksRef, timerRef, audioContextRef,
                 processorNodeRef, streamRef, visualizer, streams,
                 startPending, vizPending, intervals,
                 runtime, artifact, ticks>>

frameVars == <<amplitudes, recentMaxValues, frame>>

vars == <<playerVars, captureVars, frameVars, gateway, page, event>>

-----------------------------------------------------------------------------
(* Bounds of the model *)

\* a click on the progress bar lands on one of the positions k/SeekDen
SeekDen == 2

(* Program constants *)

\* useState(0.8), in slider steps of 0.05
InitialVolume == 16
\* <input type="range" min="0" ...>
VolumeMin == 0
\* <input type="range" ... max="1" step="0.05">, in slider steps
VolumeMax == 20

\* audioRef.current === null
Null == [null |-> TRUE]
\* audio.duration before the metadata is known
NaN == -1
\* audio.duration of a stream of unknown length
Infinity == -2

Urls == {"urlA", "urlB"}

\* audio.duration values the browser can report, in ticks
\* lengths, in seconds, of the media behind the URLs
MediaSeconds == {1, 2}
FiniteDurations == {0} \cup {n * SeekDen : n \in MediaSeconds}
DurationValues == {NaN, Infinity} \cup FiniteDurations

\* positions the slider thumb is dragged to, before the browser applies max
RawVolumes == {0, 24}
\* click positions (e.clientX - rect.left) / rect.width, as k / SeekDen
RawClicks == {-1, 1, SeekDen + 1}

Signals == {"loadedmetadata", "loadeddata", "canplay", "timeupdate",
            "ended", "error"}

Min(a, b) == IF a < b THEN a ELSE b
Max(a, b) == IF a > b THEN a ELSE b

\* isFinite(x) && !isNaN(x)
IsFiniteNumber(x) == x # NaN /\ x # Infinity

-----------------------------------------------------------------------------
(* AudioPlayer: the React state as one record, so that a handler is a      *)
(* function from the state it sees to the state it leaves.                 *)

PlayerState ==
    [isPlaying |-> isPlaying, currentTime |-> currentTime, duration |-> duration,
     isReady |-> isReady, loading |-> loading, volume |-> volume,
     isMuted |-> isMuted]

\* the next values of the useState variables are those of record s
Commit(s) ==
    /\ isPlaying' = s.isPlaying
    /\ currentTime' = s.currentTime
    /\ duration' = s.duration
    /\ isReady' = s.isReady
    /\ loading' = s.loading
    /\ volume' = s.volume
    /\ isMuted' = s.isMuted

\* The readiness the user interface acts on: the spinner shows while loading,
\* the transport controls are enabled exactly when isReady && !loading.
Readiness ==
    IF loading THEN "Loading" ELSE IF isReady THEN "Ready" ELSE "Errored"

\* new Audio(), with the listeners attached and the src set by the audioUrl
\* effect.  Field isReady is the value of the isReady state that the effect's
\* handlers close over.  The volume and muted fields are modelled for the
\* element audioRef.current only (audioVolume, audioMuted): the program holds
\* no other reference through which it could read them.
NewAudio(url, s) ==
    [src |-> url, listeners |-> TRUE, paused |-> TRUE, playPending |-> FALSE,
     duration |-> NaN, currentTime |-> 0, isReady |-> s.isReady]

-----------------------------------------------------------------------------
(* Handlers of the media events.  s is the React state, closedIsReady the  *)
(* isReady value of the render whose effect attached the handler, d the    *)
(* element's audio.duration and t its audio.currentTime when the event is  *)
(* dispatched.                                                             *)

handleLoadedMetadata(s, closedIsReady, d, t) ==
    IF IsFiniteNumber(d)
    THEN [s EXCEPT !.duration = d, !.isReady = TRUE, !.loading = FALSE]
    ELSE s

handleLoadedData(s, closedIsReady, d, t) ==
    IF ~closedIsReady /\ IsFiniteNumber(d)
    THEN [s EXCEPT !.duration = d, !.isReady = TRUE, !.loading = FALSE]
    ELSE s

handleCanPlay(s, closedIsReady, d, t) ==
    IF ~closedIsReady /\ IsFiniteNumber(d)
    THEN [s EXCEPT !.loading = FALSE, !.duration = d, !.isReady = TRUE]
    ELSE [s EXCEPT !.loading = FALSE]

handleTimeUpdate(s, closedIsReady, d, t) ==
    IF ~closedIsReady /\ IsFiniteNumber(d) /\ d > 0
    THEN [s EXCEPT !.currentTime = t, !.duration = d, !.isReady = TRUE]
    ELSE [s EXCEPT !.currentTime = t]

handleEnded(s, closedIsReady, d, t) ==
    [s EXCEPT !.isPlaying = FALSE, !.currentTime = 0]

handleError(s, closedIsReady, d, t) ==
    [s EXCEPT !.loading = FALSE, !.isReady = FALSE]

\* the listener table of addEventListener
Dispatch(kind, s, closedIsReady, d, t) ==
    CASE kind = "loadedmetadata" -> handleLoadedMetadata(s, closedIsReady, d, t)
      [] kind = "loadeddata" -> handleLoadedData(s, closedIsReady, d, t)
      [] kind = "canplay" -> handleCanPlay(s, closedIsReady, d, t)
      [] kind = "timeupdate" -> handleTimeUpdate(s, closedIsReady, d, t)
      [] kind = "ended" -> handleEnded(s, closedIsReady, d, t)
      [] kind = "error" -> handleError(s, closedIsReady, d, t)

-----------------------------------------------------------------------------
(* Effects.  Each takes an audio element and returns it as the effect      *)
(* leaves it.                                                              *)

\* audio.src = '': the element drops its media resource, and with it the
\* duration and the playback position it reported
Unload(a) == [a EXCEPT !.src = "", !.duration = NaN, !.currentTime = 0]

\* removeEventListener x 6: the handlers go, and with them the isReady value
\* they closed over
RemoveListeners(a) == [a EXCEPT !.listeners = FALSE, !.isReady = FALSE]

\* (mutant) the cleanup without its removeEventListener calls
EffectCleanup_KeepListeners(a) == Unload([a EXCEPT !.paused = TRUE])

\* The cleanup returned by the audioUrl effect, for the element a it created:
\* audio.pause(), audio.src = '', removeEventListener x 6.
EffectCleanup(a) ==
    RemoveListeners(Unload([a EXCEPT !.paused = TRUE]))

\* audio.pause(), also on no element at all (if (audioRef.current) ...)
Pause(ref) == IF ref = Null THEN Null ELSE [ref EXCEPT !.paused = TRUE]

\* useEffect(..., [isPlaying]): audio.play() or audio.pause() on audioRef.current
IsPlayingEffect(ref, playing) ==
    IF ref = Null THEN Null
    ELSE IF playing
         THEN [ref EXCEPT !.paused = FALSE, !.playPending = TRUE]
         ELSE Pause(ref)

\* useEffect(..., [volume, isMuted]): audio.volume = volume; audio.muted =
\* isMuted on audioRef.current.  av is <<audio.volume, audio.muted>>.
VolumeEffect(av, ref, s) ==
    IF ref = Null THEN av ELSE <<s.volume, s.isMuted>>

\* React re-renders after the state went from old to new and runs the effects
\* whose dependencies changed: here the isPlaying effect
RunEffects(ref, old, new) ==
    IF old.isPlaying # new.isPlaying
    THEN IsPlayingEffect(ref, new.isPlaying) ELSE ref

\* ... and here the volume effect
RunVolumeEffect(av, ref, old, new) ==
    IF old.volume # new.volume \/ old.isMuted # new.isMuted
    THEN VolumeEffect(av, ref, new) ELSE av

\* the element's volume and muted fields become those of the pair av
SetAudioVolume(av) == audioVolume' = av[1] /\ audioMuted' = av[2]

-----------------------------------------------------------------------------
(* Handlers of the controls.                                               *)

\* (mutant) the new element left with the browser's defaults
ConfigureAudio_Defaults(s) == <<VolumeMax, FALSE>>

\* "Configure audio": audio.volume = volume; audio.muted = isMuted
ConfigureAudio(s) == <<s.volume, s.isMuted>>

\* the state updates of the audioUrl effect: setLoading(true), then "Reset state"
LoadState(s) ==
    [s EXCEPT !.loading = TRUE, !.isPlaying = FALSE, !.currentTime = 0,
              !.isReady = FALSE]

\* (mutant) togglePlayPause without its guard
togglePlayPause_NoGuard(s) == [s EXCEPT !.isPlaying = ~s.isPlaying]

togglePlayPause(s) ==
    IF ~s.isReady \/ s.loading THEN s
    ELSE [s EXCEPT !.isPlaying = ~s.isPlaying]

\* (mutant) a catch callback that only logs
playCatch_LogOnly(s) == s

\* playPromise.catch(error => { console.error(...); setIsPlaying(false) })
playCatch(s) == [s EXCEPT !.isPlaying = FALSE]

\* (mutant) the click position taken as it comes
ClickPercent_NoClamp(k) == k

\* Math.max(0, Math.min(1, (e.clientX - rect.left) / rect.width)), as a
\* numerator over SeekDen
ClickPercent(k) == Max(0, Min(SeekDen, k))

\* whether a click on the progress bar reaches the handler's assignments.  The
\* bar has the handler only while isReady && !loading
\* (onClick={isReady && !loading ? handleProgressClick : undefined}); the
\* handler returns early unless audioRef.current && isReady && duration > 0.
ProgressClickActs(s, ref) ==
    /\ s.isReady /\ ~s.loading
    /\ ref # Null /\ s.isReady /\ s.duration > 0

\* the click handler of the progress bar: the new currentTime, for the state
\* and for the element
handleProgressClick(s, ref, k) ==
    IF ProgressClickActs(s, ref)
    THEN (ClickPercent(k) * s.duration) \div SeekDen
    ELSE s.currentTime

\* (mutant) muting by zeroing the stored volume
toggleMute_ZeroVolume(s, ref) ==
    IF ref = Null THEN s
    ELSE [s EXCEPT !.isMuted = ~s.isMuted,
                   !.volume = IF s.isMuted THEN s.volume ELSE 0]

toggleMute(s, ref) ==
    IF ref = Null THEN s
    ELSE [s EXCEPT !.isMuted = ~s.isMuted]

\* e.target.value of <input type="range" min="0" max="1" step="0.05">: the
\* browser keeps the value of a range input between min and max
RangeInputValue(raw) == Max(VolumeMin, Min(VolumeMax, raw))

\* (mutant) handleVolumeChange without setIsMuted
handleVolumeChange_NoMute(s, ref, raw) ==
    IF ref = Null THEN s
    ELSE [s EXCEPT !.volume = RangeInputValue(raw)]

handleVolumeChange(s, ref, raw) ==
    IF ref = Null THEN s
    ELSE LET newVolume == RangeInputValue(raw)
         IN [s EXCEPT !.volume = newVolume, !.isMuted = (newVolume = 0)]

-----------------------------------------------------------------------------
(* What the browser does on its own.                                       *)

\* audio.duration only gains knowledge: unknown, then possibly Infinity, then
\* a finite length, which the browser may still revise upwards as it reads
\* more of the media (durationchange).
NextDurations(old) ==
    IF old = NaN THEN DurationValues
    ELSE IF old = Infinity THEN DurationValues \ {NaN}
    ELSE {d \in FiniteDurations : d >= old}

\* audio.currentTime at a timeupdate: where it was, or one tick further while
\* the element plays media of known length
NextTimes(a, d) ==
    {a.currentTime} \cup
    (IF ~a.paused /\ IsFiniteNumber(d) /\ a.currentTime < d
     THEN {a.currentTime + 1} ELSE {})

\* a signal of this kind carrying duration d is one its handler can take a
\* duration from
Usable(kind, d) ==
    /\ kind \in {"loadedmetadata", "loadeddata", "canplay", "timeupdate"}
    /\ IsFiniteNumber(d)
    /\ (kind = "timeupdate" => d > 0)

\* element a as the browser has it when it dispatches an event of this kind
\* with audio.duration d and audio.currentTime t; handleEnded's
\* audio.currentTime = 0 is included
Emitted(a, kind, d, t) ==
    [a EXCEPT !.duration = d, !.currentTime = IF kind = "ended" THEN 0 ELSE t]

-----------------------------------------------------------------------------
(* Actions of the Playback Transport                                       *)

\* what is kept of an element once audioRef holds another one
Released(a) ==
    [listeners |-> a.listeners, isReady |-> a.isReady,
     playPending |-> a.playPending]

PlayerInit ==
    /\ audioUrl = ""
    /\ isPlaying = FALSE
    /\ currentTime = 0
    /\ duration = 0
    /\ isReady = FALSE
    /\ loading = TRUE
    /\ volume = InitialVolume
    /\ isMuted = FALSE
    /\ audioRef = Null
    /\ released = {}
    /\ audioVolume = 0
    /\ audioMuted = FALSE

\* load(url): the audioUrl prop becomes url and React runs the cleanup of the
\* previous audioUrl effect, if that effect returned one (its URL was not
\* empty; the element it created is the one audioRef holds), and then the
\* effect.
Load(url) ==
    /\ url # audioUrl
    /\ LET old == PlayerState
           cleaned == IF audioUrl # "" THEN EffectCleanup(audioRef) ELSE audioRef
       IN IF url = ""
          THEN /\ audioRef' = cleaned
               /\ UNCHANGED <<isPlaying, currentTime, duration, isReady, loading,
                              volume, isMuted, released, audioVolume, audioMuted>>
          ELSE LET new == LoadState(old)
                   prior == Pause(cleaned)
               IN /\ Commit(new)
                  /\ audioRef' = RunEffects(NewAudio(url, old), old, new)
                  /\ released' = (IF prior = Null THEN released
                                  ELSE released \cup {Released(prior)})
                  /\ SetAudioVolume(ConfigureAudio(old))
    /\ audioUrl' = url
    /\ event' = [kind |-> "load", stale |-> FALSE, arg |-> 0]
    /\ UNCHANGED <<captureVars, frameVars, gateway, page>>

\* the element audioRef holds emits a media event; its listener, if still
\* attached, runs
Signal(kind) ==
    /\ audioRef # Null
    /\ event' = [kind |-> kind, stale |-> FALSE, arg |-> 0]
    /\ UNCHANGED <<captureVars, frameVars, gateway, page>>
    /\ UNCHANGED <<audioUrl, released, audioVolume, audioMuted>>
    /\ IF audioRef.listeners
       THEN \E d \in NextDurations(audioRef.duration) :
            \E t \in (IF kind = "timeupdate" THEN NextTimes(audioRef, d)
                      ELSE {audioRef.currentTime}) :
               LET old == PlayerState
                   new == Dispatch(kind, old, audioRef.isReady, d, t)
               IN /\ Commit(new)
                  /\ audioRef' = RunEffects(Emitted(audioRef, kind, d, t),
                                            old, new)
       ELSE UNCHANGED <<isPlaying, currentTime, duration, isReady, loading,
                        volume, isMuted, audioRef>>

\* a released element emits a media event (one queued before its release, or
\* the error that follows audio.src = ''), with whatever duration and
\* position it has; its listener, if still attached, runs
StaleSignal(a, kind) ==
    /\ a \in released
    /\ event' = [kind |-> kind, stale |-> TRUE, arg |-> 0]
    /\ UNCHANGED <<captureVars, frameVars, gateway, page>>
    /\ UNCHANGED <<audioUrl, released, audioVolume, audioMuted>>
    /\ IF a.listeners
       THEN \E d \in DurationValues : \E t \in {0} \cup FiniteDurations :
               LET old == PlayerState
                   new == Dispatch(kind, old, a.isReady, d, t)
               IN /\ Commit(new)
                  /\ audioRef' = RunEffects(audioRef, old, new)
       ELSE UNCHANGED <<isPlaying, currentTime, duration, isReady, loading,
                        volume, isMuted, audioRef>>

\* the promise of audio.play() on the element audioRef holds resolves:
\* playback has started.  (A released element is paused and has no source:
\* its promise can only reject.)
ResolvePlay ==
    /\ audioRef # Null
    /\ audioRef.playPending /\ ~audioRef.paused /\ audioRef.src # ""
    /\ audioRef' = [audioRef EXCEPT !.playPending = FALSE]
    /\ event' = [kind |-> "playResolved", stale |-> FALSE, arg |-> 0]
    /\ UNCHANGED <<captureVars, frameVars, gateway, page>>
    /\ UNCHANGED <<audioUrl, isPlaying, currentTime, duration, isReady, loading,
                   volume, isMuted, released, audioVolume, audioMuted>>

\* the promise of audio.play() on the element audioRef holds rejects
\* (autoplay policy, no source, or a pause() that came first); the catch
\* callback runs
RejectPlay ==
    /\ audioRef # Null
    /\ audioRef.playPending
    /\ LET old == PlayerState
           new == playCatch(old)
           e == [audioRef EXCEPT !.playPending = FALSE, !.paused = TRUE]
       IN /\ Commit(new)
          /\ audioRef' = RunEffects(e, old, new)
    /\ event' = [kind |-> "playRejected", stale |-> FALSE, arg |-> 0]
    /\ UNCHANGED <<captureVars, frameVars, gateway, page>>
    /\ UNCHANGED <<audioUrl, released, audioVolume, audioMuted>>

\* the promise of audio.play() on a released element rejects: the element was
\* paused and unloaded while the promise was pending; the catch callback runs
StaleRejectPlay(a) ==
    /\ a \in released
    /\ a.playPending
    /\ LET old == PlayerState
           new == playCatch(old)
       IN /\ Commit(new)
          /\ audioRef' = RunEffects(audioRef, old, new)
    /\ released' = (released \ {a}) \cup {[a EXCEPT !.playPending = FALSE]}
    /\ event' = [kind |-> "playRejected", stale |-> TRUE, arg |-> 0]
    /\ UNCHANGED <<captureVars, frameVars, gateway, page>>
    /\ UNCHANGED <<audioUrl, audioVolume, audioMuted>>

\* play()/pause(): a click on the play/pause button
TogglePlayPause ==
    /\ LET old == PlayerState
           new == togglePlayPause(old)
       IN /\ Commit(new)
          /\ audioRef' = RunEffects(audioRef, old, new)
    /\ event' = [kind |-> "togglePlayPause", stale |-> FALSE, arg |-> 0]
    /\ UNCHANGED <<captureVars, frameVars, gateway, page>>
    /\ UNCHANGED <<audioUrl, released, audioVolume, audioMuted>>

\* seek(k / SeekDen): a click on the progress bar
HandleProgressClick(k) ==
    /\ LET old == PlayerState
           newTime == handleProgressClick(old, audioRef, k)
       IN /\ Commit([old EXCEPT !.currentTime = newTime])
          /\ audioRef' = IF ProgressClickActs(old, audioRef)
                         THEN [audioRef EXCEPT !.currentTime = newTime]
                         ELSE audioRef
    /\ event' = [kind |-> "seek", stale |-> FALSE, arg |-> k]
    /\ UNCHANGED <<captureVars, frameVars, gateway, page>>
    /\ UNCHANGED <<audioUrl, released, audioVolume, audioMuted>>

\* toggleMute(): a click on the volume icon
ToggleMute ==
    /\ LET old == PlayerState
           new == toggleMute(old, audioRef)
       IN /\ Commit(new)
          /\ SetAudioVolume(RunVolumeEffect(<<audioVolume, audioMuted>>,
                                            audioRef, old, new))
    /\ event' = [kind |-> "toggleMute", stale |-> FALSE, arg |-> 0]
    /\ UNCHANGED <<captureVars, frameVars, gateway, page>>
    /\ UNCHANGED <<audioUrl, audioRef, released>>

\* setVolume(raw): the volume slider is moved
HandleVolumeChange(raw) ==
    /\ LET old == PlayerState
           new == handleVolumeChange(old, audioRef, raw)
       IN /\ Commit(new)
          /\ SetAudioVolume(RunVolumeEffect(<<audioVolume, audioMuted>>,
                                            audioRef, old, new))
    /\ event' = [kind |-> "setVolume", stale |-> FALSE, arg |-> raw]
    /\ UNCHANGED <<captureVars, frameVars, gateway, page>>
    /\ UNCHANGED <<audioUrl, audioRef, released>>

-----------------------------------------------------------------------------
(* AudioRecorder and AudioVisualizer                                       *)

\* getUserMedia requests the model follows (pending or resolved)
MaxStreams == 4
\* the elapsed-seconds counter is followed up to MaxTicks
MaxTicks == 3
\* the chunk buffer is followed up to MaxChunks chunks
MaxChunks == 3

SetEvent(kind) == event' = [kind |-> kind, stale |-> FALSE, arg |-> 0]

\* the refs of a visualizer that has started nothing.  liveStreams counts
\* the streams its startVisualization calls obtained: each goes to a source
\* node only, no reference to it is kept and nothing ever stops its tracks.
\* callbacks counts the update callbacks that requestAnimationFrame holds;
\* animationFrame tells that animationFrameRef holds the id of one of them,
\* the one requested last.
IdleVisualizer ==
    [audioContext |-> FALSE, analyser |-> FALSE, source |-> FALSE,
     animationFrame |-> FALSE, liveStreams |-> 0, callbacks |-> 0]

RECURSIVE SelectFrom(_, _, _), SelectFrom_NoBreak(_, _, _)

\* the formats array of startRecording, in its order
formats ==
    << "audio/webm", "audio/ogg", "audio/mp3", "audio/mp4", "audio/wav",
       "audio/ogg;codecs=opus", "audio/mpeg", "audio/mpga", "audio/oga",
       "audio/flac", "audio/m4a" >>

\* the formats a runtime may support
Formats == {formats[i] : i \in DOMAIN formats}

\* the runtime used where the formats are not the subject: one that records
\* WebM and MP4 and reports the codecs
DefaultRuntime ==
    [supported |-> {"audio/webm", "audio/mp4"}, addsCodecs |-> TRUE]

\* (mutant) the for loop of startRecording without its break
SelectFrom_NoBreak(i, sup, mimeType) ==
    IF i > Len(formats) THEN mimeType
    ELSE IF formats[i] \in sup THEN SelectFrom_NoBreak(i + 1, sup, formats[i])
    ELSE SelectFrom_NoBreak(i + 1, sup, mimeType)

\* for (const format of formats) { if (isTypeSupported(format)) { mimeType =
\* format; break } }, from index i on, mimeType being '' at the start
SelectFrom(i, sup, mimeType) ==
    IF i > Len(formats) THEN mimeType
    ELSE IF formats[i] \in sup THEN formats[i]
    ELSE SelectFrom(i + 1, sup, mimeType)

\* the type the MediaRecorder is built for: new MediaRecorder(stream,
\* { mimeType }) if a format was found, new MediaRecorder(stream) with the
\* runtime's default type if not
Negotiated(sup) ==
    LET mimeType == SelectFrom(1, sup, "")
    IN IF mimeType # "" THEN mimeType ELSE "default"

\* mediaRecorder.mimeType as onstop reads it: the type the recorder was built
\* for, to which a runtime may add the codecs it chose
RecorderMimeType(format, addsCodecs) ==
    [format |-> format,
     codecs |-> addsCodecs /\ format # "audio/ogg;codecs=opus"]

\* the mimeType of a stream that has no recorder
NoType == [format |-> "", codecs |-> FALSE]

\* Home's download attribute for the blob it holds: audioBlob?.type
\* .includes('webm') ? "recording.webm" : "recording.mp3".  Of the types a
\* recorder is built for here, only audio/webm contains 'webm', with or
\* without codecs.
downloadName(mimeType) ==
    IF mimeType.format = "audio/webm" THEN <<"recording", "webm">>
    ELSE <<"recording", "mp3">>

\* no blob has been handed over yet
NoArtifact == [recorder |-> 0, chunks |-> <<>>, mimeType |-> NoType]

\* a MediaStream startRecording just obtained; recorder is the state of the
\* MediaRecorder built on it, produced the number of non-empty chunks that
\* recorder has delivered
NewStream(type) ==
    [live |-> TRUE, recorder |-> "recording", mimeType |-> type,
     produced |-> 0]

\* stream.getTracks().forEach(track => track.stop()); a MediaRecorder whose
\* tracks have all ended stops
StopTracks(ss, id) ==
    IF id = 0 THEN ss
    ELSE [ss EXCEPT ![id] = [@ EXCEPT !.live = FALSE,
                                      !.recorder = IF @ = "recording"
                                                   THEN "stopping" ELSE @]]

\* mediaRecorder.stop()
StopRecorder(ss, id) ==
    IF id # 0 /\ ss[id].recorder = "recording"
    THEN [ss EXCEPT ![id].recorder = "stopping"]
    ELSE ss

\* processorNodeRef.current.disconnect(), under the guard of its two callers
DisconnectProcessor(node, context) ==
    IF node # "none" /\ context # "none" THEN "disconnected" ELSE node

\* audioContextRef.current.close()
CloseContext(context) == IF context # "none" THEN "closed" ELSE context

\* AudioVisualizer.stopVisualization: cancels the callback whose id
\* animationFrameRef holds and drops the source node and the context;
\* analyserRef is left as it is
stopVisualization(v) ==
    [v EXCEPT !.callbacks = IF v.animationFrame THEN @ - 1 ELSE @,
              !.animationFrame = FALSE, !.source = FALSE,
              !.audioContext = FALSE]

\* AudioVisualizer's effect on isRecording, run when isRecording changed from
\* was to now: the cleanup of the previous run, then stopVisualization, or
\* startVisualization, which issues a getUserMedia request of its own
VisualizerAfter(v, was, now) ==
    IF was = now THEN v ELSE stopVisualization(v)

\* setAmplitudes([0, 0, 0]) of the stopVisualization that effect runs
AmplitudesAfter(a, was, now) == IF was = now THEN a ELSE <<0, 0, 0>>

VisualizerRequests(was, now) == IF was # now /\ now THEN 1 ELSE 0

\* the microphone requests issued so far that may still produce a stream,
\* counting for a pending startRecording the request its visualizer will make
Requested ==
    Len(streams) + visualizer.liveStreams + 2 * startPending + vizPending

\* Home when it is mounted
PageInit ==
    page = [requests |-> <<>>, fetches |-> 0, transcription |-> <<>>,
            error |-> <<>>]

\* handleFileSelected and handleUseTestAudio up to their await of
\* transcribeAudio: setError(null), and the request
Submit(p, handler) ==
    [p EXCEPT !.requests = Append(@, handler), !.error = <<>>]

CaptureInit ==
    /\ mounted = TRUE
    /\ isProcessing = FALSE
    /\ isRecording = FALSE
    /\ recordingTime = 0
    /\ isStreaming = FALSE
    /\ mediaRecorderRef = 0
    /\ chunksRef = <<>>
    /\ timerRef = FALSE
    /\ audioContextRef = "none"
    /\ processorNodeRef = "none"
    /\ streamRef = 0
    /\ visualizer = IdleVisualizer
    /\ streams = <<>>
    /\ startPending = 0
    /\ vizPending = 0
    /\ intervals = 0
    /\ artifact = NoArtifact
    /\ ticks = 0
    /\ amplitudes = <<0, 0, 0>>
    /\ recentMaxValues = <<0, 0, 0>>
    /\ frame = [count |-> 0, raws |-> <<0, 0, 0>>, run |-> 0, changes |-> 0]

-----------------------------------------------------------------------------
(* AudioVisualizer.updateAmplitudes.  Amplitudes are fixed-point numbers   *)
(* in units of 1/Scale; a result that is not a multiple of the unit is     *)
(* rounded to the nearest one.                                             *)

Scale == 100
\* the frames of the loop that the model follows
MaxFrames == 22
\* the changes of the band maxima from one snapshot to the next
MaxChanges == 1

\* analyser.fftSize = 256
fftSize == 256
\* analyser.frequencyBinCount
frequencyBinCount == fftSize \div 2

adaptationRatePercent == 5
bassGainTenths == 12
midGainTenths == 17
trebleGainTenths == 22
gainsTenths == <<bassGainTenths, midGainTenths, trebleGainTenths>>

\* bassRange, midRange, trebleRange
bassEnd == 10
midEnd == 30
trebleEnd == 80
ranges ==
    << [start |-> 0, end |-> bassEnd], [start |-> bassEnd, end |-> midEnd],
       [start |-> midEnd, end |-> trebleEnd] >>

\* Math.min(90, Math.max(5, ...)) and maxVal > 80 ? 80 / maxVal : 1
amplitudeFloor == 5
amplitudeCeiling == 90
reductionThreshold == 80

\* the byte magnitudes a bin takes in the snapshots followed
Levels == {0, 64, 255}

\* getByteFrequencyData: every bin at level r
Flat(r) == [i \in 0..(frequencyBinCount - 1) |-> r]

\* getByteFrequencyData: bin k at 255, silence elsewhere
Peak(k) == [i \in 0..(frequencyBinCount - 1) |-> IF i = k THEN 255 ELSE 0]

\* the snapshots followed: flat spectra, and single peaks at the last bin of
\* the bass range, the first of the mid range and the first bin past treble
Snapshots ==
    {Flat(r) : r \in Levels}
        \cup {Peak(k) : k \in {bassEnd - 1, bassEnd, trebleEnd}}

\* getMaxForRange: the largest of dataArray[start .. min(end, length) - 1],
\* 0 for an empty range
getMaxForRange(dataArray, start, end) ==
    LET s == {dataArray[i] : i \in start..(Min(end, frequencyBinCount) - 1)}
    IN IF s = {} THEN 0 ELSE CHOOSE m \in s : \A x \in s : x <= m

RECURSIVE SqrtBetween(_, _, _)

\* the largest r in lo..hi with r * r <= n
SqrtBetween(n, lo, hi) ==
    IF lo >= hi THEN lo
    ELSE LET mid == (lo + hi + 1) \div 2
         IN IF mid * mid <= n THEN SqrtBetween(n, mid, hi)
            ELSE SqrtBetween(n, lo, mid - 1)

\* Math.sqrt of n, rounded to the nearest integer
Sqrt(n) ==
    LET r == SqrtBetween(n, 0, 100 * Scale + 1)
    IN IF n - r * r > r THEN r + 1 ELSE r

\* x / y rounded to the nearest integer, for x >= 0 and y > 0
RoundDiv(x, y) == (2 * x + y) \div (2 * y)

\* compressDynamicRange: Math.sqrt(value / 255) * 100
compressDynamicRange(value) ==
    Sqrt(RoundDiv(value * Scale * Scale * 100, 255) * 100)

\* compressDynamicRange(raw) * gain
GainedValue(raw, idx) ==
    RoundDiv(compressDynamicRange(raw) * gainsTenths[idx], 10)

\* (mutant) a running value that follows the new value in both directions
UpdateRecentMax_Follow(val, newVal) ==
    val + RoundDiv((newVal - val) * adaptationRatePercent + 100, 100) - 1

\* val + (Math.max(val, newVal) - val) * adaptationRate
UpdateRecentMax(val, newVal) ==
    val + RoundDiv((Max(val, newVal) - val) * adaptationRatePercent, 100)

\* adaptiveGain: value * (maxVal > 80 ? 80 / maxVal : 1)
adaptiveGain(value, maxVal) ==
    IF maxVal > reductionThreshold * Scale
    THEN RoundDiv(value * reductionThreshold * Scale, maxVal)
    ELSE value

\* (mutant) the constraint without its lower limit
Constrain_NoFloor(x) == Min(amplitudeCeiling * Scale, x)

\* Math.min(90, Math.max(5, x))
Constrain(x) ==
    Min(amplitudeCeiling * Scale, Max(amplitudeFloor * Scale, x))

\* the band maxima of a snapshot
RawsOf(dataArray) ==
    [idx \in 1..3 |->
        getMaxForRange(dataArray, ranges[idx].start, ranges[idx].end)]

\* bassVal, midVal, trebleVal for the band maxima of every snapshot followed
GainedValues ==
    [idx \in 1..3 |->
        [raw \in {RawsOf(d)[idx] : d \in Snapshots} |-> GainedValue(raw, idx)]]

\* recentMaxValues.current[idx] after a frame whose band maximum is raw
NextRecentMax(idx, raw) ==
    UpdateRecentMax(recentMaxValues[idx], GainedValues[idx][raw])

\* the amplitude set by a frame whose band maximum is raw
NextAmplitude(idx, raw) ==
    Constrain(adaptiveGain(GainedValues[idx][raw], NextRecentMax(idx, raw)))

\* the band maxima of the snapshots followed
BandMaxima == [d \in Snapshots |-> RawsOf(d)]

\* what a frame with the band maxima raws leaves
FrameAfter(raws) ==
    LET same == frame.count = 0 \/ raws = frame.raws
    IN [count |-> frame.count + 1,
        raws |-> raws,
        run |-> IF same THEN frame.run + 1 ELSE 1,
        changes |-> IF same THEN frame.changes ELSE frame.changes + 1]

\* update: one frame of the loop on the snapshot dataArray
update(dataArray) ==
    \E raws \in {BandMaxima[dataArray]} :
       /\ recentMaxValues' = [idx \in 1..3 |-> NextRecentMax(idx, raws[idx])]
       /\ amplitudes' = IF mounted
                        THEN [idx \in 1..3 |-> NextAmplitude(idx, raws[idx])]
                        ELSE amplitudes
       /\ frame' = FrameAfter(raws)

\* requestAnimationFrame calls one of the update callbacks it holds, which
\* requests the next one and leaves its id in animationFrameRef
Frame(dataArray) ==
    /\ visualizer.callbacks > 0
    /\ frame.count < MaxFrames
    /\ BandMaxima[dataArray] # frame.raws => frame.changes < MaxChanges
    /\ update(dataArray)
    /\ visualizer' = [visualizer EXCEPT !.animationFrame = TRUE]
    /\ SetEvent("frame")
    /\ UNCHANGED <<mounted, isProcessing, isRecording, recordingTime,
                   isStreaming, mediaRecorderRef, chunksRef, timerRef,
                   audioContextRef, processorNodeRef, streamRef, streams,
                   startPending, vizPending, intervals>>
    /\ UNCHANGED <<runtime, artifact, ticks>>
    /\ UNCHANGED <<playerVars, gateway, page>>

-----------------------------------------------------------------------------

\* click on "Start Recording" (rendered while !isRecording, disabled while
\* isProcessing): startRecording runs up to its await of getUserMedia
StartRecording ==
    /\ mounted /\ ~isRecording /\ ~isProcessing
    /\ Requested + 2 <= MaxStreams
    /\ startPending' = startPending + 1
    /\ SetEvent("startRecording")
    /\ UNCHANGED <<mounted, isProcessing, isRecording, recordingTime,
                   isStreaming, mediaRecorderRef, chunksRef, timerRef,
                   audioContextRef, processorNodeRef, streamRef, visualizer,
                   streams, vizPending, intervals>>
    /\ UNCHANGED <<runtime, artifact, ticks>>
    /\ UNCHANGED <<playerVars, gateway, page>>
    /\ UNCHANGED frameVars

\* getUserMedia resolves for startRecording: the rest of startRecording, with
\* setupStreamingTranscription, and the effect of AudioVisualizer on the new
\* isRecording.  The state setters do nothing on an unmounted component.
MicrophoneGranted ==
    /\ startPending > 0
    /\ LET id == Len(streams) + 1
           now == IF mounted THEN TRUE ELSE isRecording
       IN /\ startPending' = startPending - 1
          /\ streams' = Append(streams,
                 NewStream(RecorderMimeType(Negotiated(runtime.supported),
                                            runtime.addsCodecs)))
          /\ streamRef' = id
          /\ mediaRecorderRef' = id
          /\ chunksRef' = <<>>
          /\ ticks' = 0
          /\ isRecording' = now
          /\ recordingTime' = IF mounted THEN 0 ELSE recordingTime
          /\ timerRef' = TRUE
          /\ intervals' = intervals + 1
          /\ isStreaming' = IF mounted THEN TRUE ELSE isStreaming
          /\ audioContextRef' = "running"
          /\ processorNodeRef' = "connected"
          /\ visualizer' = VisualizerAfter(visualizer, isRecording, now)
          /\ vizPending' = vizPending + VisualizerRequests(isRecording, now)
    /\ SetEvent("microphoneGranted")
    /\ UNCHANGED <<mounted, isProcessing, runtime, artifact>>
    /\ UNCHANGED <<playerVars, gateway, page>>
    /\ amplitudes' = AmplitudesAfter(amplitudes, isRecording,
                                     IF mounted THEN TRUE ELSE isRecording)
    /\ UNCHANGED <<recentMaxValues, frame>>

\* (mutant) a startRecording that starts its timer before it awaits the stream
MicrophoneDenied_TimerFirst ==
    /\ startPending > 0
    /\ startPending' = startPending - 1
    /\ timerRef' = TRUE
    /\ intervals' = intervals + 1
    /\ SetEvent("microphoneDenied")
    /\ UNCHANGED <<mounted, isProcessing, isRecording, recordingTime,
                   isStreaming, mediaRecorderRef, chunksRef,
                   audioContextRef, processorNodeRef, streamRef, visualizer,
                   streams, vizPending>>
    /\ UNCHANGED <<runtime, artifact, ticks>>
    /\ UNCHANGED <<playerVars, gateway, page>>
    /\ UNCHANGED frameVars

\* getUserMedia rejects for startRecording: the catch only logs
MicrophoneDenied ==
    /\ startPending > 0
    /\ startPending' = startPending - 1
    /\ SetEvent("microphoneDenied")
    /\ UNCHANGED <<mounted, isProcessing, isRecording, recordingTime,
                   isStreaming, mediaRecorderRef, chunksRef, timerRef,
                   audioContextRef, processorNodeRef, streamRef, visualizer,
                   streams, vizPending, intervals>>
    /\ UNCHANGED <<runtime, artifact, ticks>>
    /\ UNCHANGED <<playerVars, gateway, page>>
    /\ UNCHANGED frameVars

\* getUserMedia resolves for startVisualization: the stream goes to a source
\* node only, the refs are set and updateAmplitudes runs the first frame of
\* its loop
VisualizerGranted ==
    /\ vizPending > 0
    /\ frame.count < MaxFrames
    /\ vizPending' = vizPending - 1
    /\ visualizer' = [audioContext |-> TRUE, analyser |-> TRUE,
                      source |-> TRUE, animationFrame |-> TRUE,
                      liveStreams |-> visualizer.liveStreams + 1,
                      callbacks |-> visualizer.callbacks + 1]
    /\ SetEvent("visualizerGranted")
    /\ UNCHANGED <<mounted, isProcessing, isRecording, recordingTime,
                   isStreaming, mediaRecorderRef, chunksRef, timerRef,
                   audioContextRef, processorNodeRef, streamRef,
                   streams, startPending, intervals>>
    /\ UNCHANGED <<runtime, artifact, ticks>>
    /\ UNCHANGED <<playerVars, gateway, page>>
    /\ \E dataArray \in Snapshots : update(dataArray)

\* getUserMedia rejects for startVisualization: the catch only logs
VisualizerDenied ==
    /\ vizPending > 0
    /\ vizPending' = vizPending - 1
    /\ SetEvent("visualizerDenied")
    /\ UNCHANGED <<mounted, isProcessing, isRecording, recordingTime,
                   isStreaming, mediaRecorderRef, chunksRef, timerRef,
                   audioContextRef, processorNodeRef, streamRef, visualizer,
                   streams, startPending, intervals>>
    /\ UNCHANGED <<runtime, artifact, ticks>>
    /\ UNCHANGED <<playerVars, gateway, page>>
    /\ UNCHANGED frameVars

\* click on "Stop Recording" (rendered while isRecording): stopRecording, and
\* the effect of AudioVisualizer on the new isRecording
StopRecording ==
    /\ mounted /\ isRecording
    /\ IF mediaRecorderRef # 0
       THEN /\ streams' = StopTracks(StopRecorder(streams, mediaRecorderRef),
                                     streamRef)
            /\ isRecording' = FALSE
            /\ isStreaming' = FALSE
            /\ intervals' = IF timerRef THEN intervals - 1 ELSE intervals
            /\ timerRef' = FALSE
            /\ processorNodeRef' =
                   DisconnectProcessor(processorNodeRef, audioContextRef)
            /\ visualizer' = VisualizerAfter(visualizer, isRecording, FALSE)
       ELSE UNCHANGED <<streams, isRecording, isStreaming, intervals,
                        timerRef, processorNodeRef, visualizer>>
    /\ SetEvent("stopRecording")
    /\ UNCHANGED <<mounted, isProcessing, recordingTime, mediaRecorderRef,
                   chunksRef, audioContextRef, streamRef, startPending,
                   vizPending>>
    /\ UNCHANGED <<runtime, artifact, ticks>>
    /\ UNCHANGED <<playerVars, gateway, page>>
    /\ amplitudes' = IF mediaRecorderRef # 0
                     THEN AmplitudesAfter(amplitudes, isRecording, FALSE)
                     ELSE amplitudes
    /\ UNCHANGED <<recentMaxValues, frame>>

\* ondataavailable: if (e.data.size > 0) chunksRef.current.push(e.data), on
\* the array chunksRef holds when the event arrives
ondataavailable(chunks, id, size) ==
    IF size > 0 THEN Append(chunks, id) ELSE chunks

\* a running MediaRecorder delivers the chunk of a timeslice, empty or not
DataAvailable(id) ==
    /\ streams[id].recorder = "recording"
    /\ \E size \in {0, 1} :
         /\ size > 0 => Len(chunksRef) < MaxChunks
         /\ chunksRef' = ondataavailable(chunksRef, id, size)
         /\ streams' = [streams EXCEPT ![id].produced = @ + size]
    /\ SetEvent("dataavailable")
    /\ UNCHANGED <<mounted, isProcessing, isRecording, recordingTime,
                   isStreaming, mediaRecorderRef, timerRef, audioContextRef,
                   processorNodeRef, streamRef, visualizer,
                   startPending, vizPending, intervals>>
    /\ UNCHANGED <<runtime, artifact, ticks>>
    /\ UNCHANGED <<playerVars, gateway, page>>
    /\ UNCHANGED frameVars

\* onstop: new Blob(chunksRef.current, { type: mediaRecorder.mimeType }), of
\* the array chunksRef holds when the event arrives
onstop(chunks, id, type) ==
    [recorder |-> id, chunks |-> chunks, mimeType |-> type]

\* the task of a MediaRecorder that was stopped: it delivers what it gathered
\* since its last chunk, empty or not, to ondataavailable and then fires
\* stop; onstop hands the blob to onRecordingComplete, Home's
\* handleRecordingComplete, whose handleFileSelected sets isProcessing
RecorderStopped(id) ==
    /\ streams[id].recorder = "stopping"
    /\ \E size \in {0, 1} :
         /\ size > 0 => Len(chunksRef) < MaxChunks
         /\ chunksRef' = ondataavailable(chunksRef, id, size)
         /\ streams' = [streams EXCEPT ![id].produced = @ + size,
                                       ![id].recorder = "inactive"]
    /\ artifact' = onstop(chunksRef', id, streams[id].mimeType)
    /\ isProcessing' = IF mounted THEN TRUE ELSE isProcessing
    /\ page' = IF mounted THEN Submit(page, "file")
               ELSE [page EXCEPT !.requests = Append(@, "file")]
    /\ SetEvent("recorderStopped")
    /\ UNCHANGED <<mounted, isRecording, recordingTime, isStreaming,
                   mediaRecorderRef, timerRef, audioContextRef,
                   processorNodeRef, streamRef, visualizer, startPending,
                   vizPending, intervals>>
    /\ UNCHANGED <<runtime, ticks>>
    /\ UNCHANGED <<playerVars, gateway>>
    /\ UNCHANGED frameVars

\* (mutant) a timer callback that sets the time it closed over plus one
NextRecordingTime_Closure(prev) == 1

\* the updater of the timer callback: prev => prev + 1
NextRecordingTime(prev) == prev + 1

\* an interval of startRecording fires: setRecordingTime(prev => prev + 1)
Tick ==
    /\ mounted /\ intervals > 0
    /\ recordingTime < MaxTicks /\ ticks < MaxTicks
    /\ recordingTime' = NextRecordingTime(recordingTime)
    /\ ticks' = ticks + 1
    /\ SetEvent("tick")
    /\ UNCHANGED <<mounted, isProcessing, isRecording, isStreaming,
                   mediaRecorderRef, chunksRef, timerRef, audioContextRef,
                   processorNodeRef, streamRef, visualizer, streams,
                   startPending, vizPending, intervals>>
    /\ UNCHANGED <<runtime, artifact>>
    /\ UNCHANGED <<playerVars, gateway, page>>
    /\ UNCHANGED frameVars

\* the page is left: the cleanup of AudioRecorder's mount effect and the
\* cleanup of AudioVisualizer's effect, whose setAmplitudes comes too late
Unmount ==
    /\ mounted
    /\ mounted' = FALSE
    /\ intervals' = IF timerRef THEN intervals - 1 ELSE intervals
    /\ processorNodeRef' = DisconnectProcessor(processorNodeRef, audioContextRef)
    /\ audioContextRef' = CloseContext(audioContextRef)
    /\ streams' = StopTracks(streams, streamRef)
    /\ visualizer' = stopVisualization(visualizer)
    /\ SetEvent("unmount")
    /\ UNCHANGED <<isProcessing, isRecording, recordingTime, isStreaming,
                   mediaRecorderRef, chunksRef, timerRef, streamRef,
                   startPending, vizPending>>
    /\ UNCHANGED <<runtime, artifact, ticks>>
    /\ UNCHANGED <<playerVars, gateway, page>>
    /\ UNCHANGED frameVars

-----------------------------------------------------------------------------
(* transcribeAudio, the server action.  A text is the sequence of the       *)
(* strings it is concatenated from.                                         *)

\* the calls of transcribeAudio that the model follows
MaxRequests == 2

\* TEST_MP3_URL
TEST_MP3_URL == "https://download.samplelib.com/mp3/sample-3s.mp3"

\* the suffix of a transcription of the test audio
Disclaimer == " (NOTE: This is from a test audio, not your recording)"

\* formData.get("audio") when the form has no such entry
NoFile == [name |-> <<"">>, type |-> "null"]

\* file names, as the parts between their dots, and file types
FileNames == {<<"">>, <<"recording">>, <<"recording", "webm">>,
              <<"memo", "M4A">>}
FileTypes == {"", "audio/webm;codecs=opus", "audio/mp3", "audio/wav",
              "audio/ogg"}
AudioFiles == [name : FileNames, type : FileTypes]

\* the texts a provider returns and the messages it rejects with
Texts == {"", "hello"}
Messages == {"Invalid file format", "fetch failed"}

\* String.prototype.toLowerCase on the extensions followed
toLowerCase(s) == IF s = "M4A" THEN "m4a" ELSE s

\* String.prototype.includes on the types followed
includes(type, token) ==
    \/ type = "audio/webm;codecs=opus" /\ token = "webm"
    \/ type = "audio/mp3" /\ token = "mp3"
    \/ type = "audio/wav" /\ token = "wav"

\* the fileExtension transcribeAudio derives from the name, else the type
fileExtension(audioFile) ==
    IF audioFile.name # <<"">> /\ Len(audioFile.name) > 1
    THEN toLowerCase(audioFile.name[Len(audioFile.name)])
    ELSE IF audioFile.type # ""
    THEN IF includes(audioFile.type, "webm") THEN "webm"
         ELSE IF includes(audioFile.type, "mp3") THEN "mp3"
         ELSE IF includes(audioFile.type, "wav") THEN "wav"
         ELSE "mp3"
    ELSE "mp3"

\* a call of transcribe that has not settled: on the buffer of the file,
\* named audio.<extension>, or on the URL of the test audio
FileCall(audioFile) ==
    [audio |-> <<"audio", fileExtension(audioFile)>>, outcome |-> "pending"]
TestCall == [audio |-> <<TEST_MP3_URL>>, outcome |-> "pending"]

NoResult == [text |-> <<>>, error |-> <<>>]

\* { text: result.text, ... }
FileResult(text) == [text |-> <<text>>, error |-> <<>>]

\* (mutant) the result of the test audio returned as the file's
TestResult_Plain(text) == [text |-> <<text>>, error |-> <<>>]

\* { text: result.text + " (NOTE: ...)", ... }
TestResult(text) == [text |-> <<text, Disclaimer>>, error |-> <<>>]

\* { error: `Failed to transcribe audio: ${error?.message || error}` }
ErrorResult(message) ==
    [text |-> <<>>, error |-> <<"Failed to transcribe audio: ", message>>]

\* (mutant) a transcribeAudio without its outer try: the exception leaves it
Caught_Rethrown(g, message) ==
    [g EXCEPT !.pc = "thrown", !.served = @ + 1]

\* catch (error) of the outer try: return { error: ... }
Caught(g, message) ==
    [g EXCEPT !.pc = "returned", !.served = @ + 1,
              !.result = ErrorResult(message)]

GatewayInit ==
    gateway = [pc |-> "idle", audioFile |-> NoFile, useTestAudio |-> FALSE,
               calls |-> <<>>, result |-> NoResult, served |-> 0]

\* transcribeAudio(formData) up to its first await of transcribe, or to its
\* return if it makes no call.  With useTestAudio and no file, the argument
\* of transcribe reads audioFile.name of null, which throws a TypeError.
Invoke(audioFile, useTestAudio) ==
    /\ gateway.pc \in {"idle", "returned"}
    /\ gateway.served < MaxRequests
    /\ gateway' =
         LET g == [gateway EXCEPT !.audioFile = audioFile,
                                  !.useTestAudio = useTestAudio,
                                  !.calls = <<>>, !.result = NoResult]
         IN IF audioFile = NoFile /\ ~useTestAudio
            THEN [g EXCEPT !.pc = "returned", !.served = @ + 1,
                           !.result = [text |-> <<>>,
                                       error |-> <<"No audio file provided">>]]
            ELSE IF useTestAudio
            THEN IF audioFile = NoFile
                 THEN Caught(g, "Cannot read properties of null")
                 ELSE [g EXCEPT !.pc = "testCall", !.calls = <<TestCall>>]
            ELSE [g EXCEPT !.pc = "fileCall",
                           !.calls = <<FileCall(audioFile)>>]
    /\ event' = [kind |-> "invoke", stale |-> FALSE, arg |-> 0]
    /\ UNCHANGED <<playerVars, captureVars, frameVars, page>>

\* the pending call of transcribe resolves with a text
ProviderResolves(text) ==
    /\ gateway.pc \in {"fileCall", "testCall", "fallbackCall"}
    /\ gateway' =
         [gateway EXCEPT !.pc = "returned", !.served = @ + 1,
                         !.calls[Len(gateway.calls)].outcome = "resolved",
                         !.result = IF gateway.pc = "fileCall"
                                    THEN FileResult(text)
                                    ELSE TestResult(text)]
    /\ event' = [kind |-> "providerResolves", stale |-> FALSE, arg |-> 0]
    /\ UNCHANGED <<playerVars, captureVars, frameVars, page>>

\* the pending call of transcribe rejects: the inner catch falls back to the
\* test audio, the outer catch returns the error
ProviderRejects(message) ==
    /\ gateway.pc \in {"fileCall", "testCall", "fallbackCall"}
    /\ gateway' =
         LET g == [gateway EXCEPT
                      !.calls[Len(gateway.calls)].outcome = "rejected"]
         IN IF gateway.pc = "fileCall"
            THEN [g EXCEPT !.pc = "fallbackCall",
                           !.calls = Append(@, TestCall)]
            ELSE Caught(g, message)
    /\ event' = [kind |-> "providerRejects", stale |-> FALSE, arg |-> 0]
    /\ UNCHANGED <<playerVars, captureVars, frameVars, page>>

-----------------------------------------------------------------------------
(* Home, the page: its requests of transcribeAudio and what it shows of    *)
(* their results.  A string of the page's state is the sequence of its     *)
(* parts, null the empty sequence.                                         *)

\* the fetches of the sample audio that the model follows at a time
MaxFetches == 1

\* what transcribeAudio returns to the handler that awaits it
ResultsOf(handler) ==
    {IF handler = "file" THEN FileResult("hello") ELSE TestResult("hello"),
     ErrorResult("fetch failed")}

\* how the await of transcribeAudio ends: with a result, or by throwing
Outcomes(handler) ==
    [thrown : {FALSE}, result : ResultsOf(handler)]
        \cup {[thrown |-> TRUE, result |-> NoResult]}

\* isTranscriptionError: 'error' in result
isTranscriptionError(result) == result.error # <<>>

\* the message set by the catch of handleFileSelected, of handleUseTestAudio
CatchMessage(handler) ==
    IF handler = "file" THEN "Failed to process file"
    ELSE "Failed to transcribe test audio"

\* what a handler sets once its await of transcribeAudio has ended
Shown(p, handler, outcome) ==
    IF outcome.thrown
    THEN [p EXCEPT !.error = <<CatchMessage(handler)>>, !.transcription = <<>>]
    ELSE IF isTranscriptionError(outcome.result)
    THEN [p EXCEPT !.error = outcome.result.error, !.transcription = <<>>]
    ELSE [p EXCEPT
            !.transcription =
                IF outcome.result.text # <<>> THEN outcome.result.text
                ELSE <<"Transcription successful but no text was returned">>,
            !.error = <<>>]

\* sequence s without its element i
Remove(s, i) == SubSeq(s, 1, i - 1) \o SubSeq(s, i + 1, Len(s))

\* a request of transcribeAudio settles: the rest of handleFileSelected or of
\* handleUseTestAudio, with its finally.  On a page that is left the request
\* settles without a trace.
TranscriptionSettled ==
    /\ mounted
    /\ \E i \in DOMAIN page.requests :
       \E outcome \in Outcomes(page.requests[i]) :
          page' = Shown([page EXCEPT !.requests = Remove(@, i)],
                        page.requests[i], outcome)
    /\ isProcessing' = FALSE
    /\ SetEvent("transcriptionSettled")
    /\ UNCHANGED <<mounted, isRecording, recordingTime, isStreaming,
                   mediaRecorderRef, chunksRef, timerRef, audioContextRef,
                   processorNodeRef, streamRef, visualizer, streams,
                   startPending, vizPending, intervals>>
    /\ UNCHANGED <<runtime, artifact, ticks>>
    /\ UNCHANGED <<playerVars, gateway>>
    /\ UNCHANGED frameVars

\* click on "Test with Sample Audio" (disabled by isProcessing):
\* handleTestSampleAudio up to its await of fetch
HandleTestSampleAudio ==
    /\ mounted /\ ~isProcessing
    /\ page.fetches < MaxFetches
    /\ page' = [page EXCEPT !.fetches = @ + 1]
    /\ SetEvent("handleTestSampleAudio")
    /\ UNCHANGED captureVars
    /\ UNCHANGED <<playerVars, gateway>>
    /\ UNCHANGED frameVars

\* the sample audio arrives: handleTestSampleAudio goes on to
\* handleFileSelected, which runs up to its await of transcribeAudio
SampleFetched ==
    /\ mounted
    /\ page.fetches > 0
    /\ page' = Submit([page EXCEPT !.fetches = @ - 1], "file")
    /\ isProcessing' = TRUE
    /\ SetEvent("sampleFetched")
    /\ UNCHANGED <<mounted, isRecording, recordingTime, isStreaming,
                   mediaRecorderRef, chunksRef, timerRef, audioContextRef,
                   processorNodeRef, streamRef, visualizer, streams,
                   startPending, vizPending, intervals>>
    /\ UNCHANGED <<runtime, artifact, ticks>>
    /\ UNCHANGED <<playerVars, gateway>>
    /\ UNCHANGED frameVars

\* the fetch of the sample audio rejects: the catch of handleTestSampleAudio
SampleFetchFailed ==
    /\ mounted
    /\ page.fetches > 0
    /\ page' = [page EXCEPT !.fetches = @ - 1,
                            !.error = <<"Error processing sample audio">>]
    /\ SetEvent("sampleFetchFailed")
    /\ UNCHANGED captureVars
    /\ UNCHANGED <<playerVars, gateway>>
    /\ UNCHANGED frameVars

\* click on "Use Server Test Audio" (disabled by isProcessing) or on
\* "Transcription Failed - Try with Server Audio Instead" (shown while error
\* is set): handleUseTestAudio up to its await of transcribeAudio
HandleUseTestAudio ==
    /\ mounted
    /\ ~isProcessing \/ page.error # <<>>
    /\ Len(page.requests) < MaxRequests
    /\ page' = Submit(page, "test")
    /\ isProcessing' = TRUE
    /\ SetEvent("handleUseTestAudio")
    /\ UNCHANGED <<mounted, isRecording, recordingTime, isStreaming,
                   mediaRecorderRef, chunksRef, timerRef, audioContextRef,
                   processorNodeRef, streamRef, visualizer, streams,
                   startPending, vizPending, intervals>>
    /\ UNCHANGED <<runtime, artifact, ticks>>
    /\ UNCHANGED <<playerVars, gateway>>
    /\ UNCHANGED frameVars

-----------------------------------------------------------------------------

Init ==
    /\ PlayerInit
    /\ CaptureInit
    /\ GatewayInit
    /\ PageInit
    /\ runtime = DefaultRuntime
    /\ event = [kind |-> "init", stale |-> FALSE, arg |-> 0]

PlayerNext ==
    \/ \E url \in Urls \cup {""} : Load(url)
    \/ \E kind \in Signals : Signal(kind)
    \/ \E a \in released : \E kind \in Signals : StaleSignal(a, kind)
    \/ ResolvePlay
    \/ RejectPlay
    \/ \E a \in released : StaleRejectPlay(a)
    \/ TogglePlayPause
    \/ \E k \in RawClicks : HandleProgressClick(k)
    \/ ToggleMute
    \/ \E raw \in RawVolumes : HandleVolumeChange(raw)

\* the devices and the lifecycle of the recorder and its visualizer
CaptureNext ==
    \/ StartRecording
    \/ MicrophoneGranted
    \/ MicrophoneDenied
    \/ VisualizerGranted
    \/ VisualizerDenied
    \/ StopRecording
    \/ \E id \in DOMAIN streams : RecorderStopped(id)
    \/ TranscriptionSettled
    \/ Unmount

\* the recording sessions of a mounted recorder: the timer, the chunks and
\* the blob
SessionNext ==
    \/ StartRecording
    \/ MicrophoneGranted
    \/ Tick
    \/ \E id \in DOMAIN streams : DataAvailable(id)
    \/ StopRecording
    \/ \E id \in DOMAIN streams : RecorderStopped(id)
    \/ TranscriptionSettled

\* the Playback Transport
SpecPlayer == Init /\ [][PlayerNext]_vars

\* the Capture & Visualization Engine: its devices
SpecCapture == Init /\ [][CaptureNext]_vars

\* the start of a recording and the frames of its visualizer
VisualizerNext ==
    \/ StartRecording
    \/ MicrophoneGranted
    \/ VisualizerGranted
    \/ \E dataArray \in Snapshots : Frame(dataArray)

\* the Capture & Visualization Engine: its visualizer
SpecVisualizer == Init /\ [][VisualizerNext]_vars

\* the calls of the server action and the answers of its provider
GatewayNext ==
    \/ \E audioFile \in AudioFiles \cup {NoFile} :
         \E useTestAudio \in BOOLEAN : Invoke(audioFile, useTestAudio)
    \/ \E text \in Texts : ProviderResolves(text)
    \/ \E message \in Messages : ProviderRejects(message)

\* the Transcription Gateway
SpecGateway == Init /\ [][GatewayNext]_vars

\* the Capture & Visualization Engine: its sessions
SpecSession == Init /\ [][SessionNext]_vars

\* the runtimes a recorder may meet: any set of supported formats
Runtimes == [supported : SUBSET Formats, addsCodecs : BOOLEAN]

InitFormat ==
    /\ PlayerInit
    /\ CaptureInit
    /\ GatewayInit
    /\ PageInit
    /\ runtime \in Runtimes
    /\ event = [kind |-> "init", stale |-> FALSE, arg |-> 0]

\* a recording from the start to its blob
FormatNext ==
    \/ StartRecording
    \/ MicrophoneGranted
    \/ StopRecording
    \/ \E id \in DOMAIN streams : RecorderStopped(id)

\* the Capture & Visualization Engine: its format negotiation on any runtime
SpecFormat == InitFormat /\ [][FormatNext]_vars

\* a recording, the two test actions of the page and their requests
PageNext ==
    \/ StartRecording
    \/ MicrophoneGranted
    \/ StopRecording
    \/ \E id \in DOMAIN streams : RecorderStopped(id)
    \/ HandleTestSampleAudio
    \/ SampleFetched
    \/ SampleFetchFailed
    \/ HandleUseTestAudio
    \/ TranscriptionSettled

\* the page and its requests
SpecPage == Init /\ [][PageNext]_vars

Next ==
    PlayerNext \/ CaptureNext \/ SessionNext \/ VisualizerNext \/ GatewayNext
        \/ PageNext

Spec == Init /\ [][Next]_vars

-----------------------------------------------------------------------------
(* Claims about the Playback Transport.  A step is recognised by the event *)
(* it leaves: event' names the operation of every step that is not a       *)
(* stuttering step.                                                        *)

\* clamp(f, 0, 1) of a click position f = k / SeekDen, as a numerator
ClampedClick(k) == IF k < 0 THEN 0 ELSE IF k > SeekDen THEN SeekDen ELSE k

\* clamp(v, 0, 1) of a volume, in slider steps
ClampedVolume(v) ==
    IF v < VolumeMin THEN VolumeMin ELSE IF v > VolumeMax THEN VolumeMax ELSE v

\* the element audioRef holds is one the audioUrl effect has not released
HandleIsLive == audioRef # Null /\ audioRef.listeners

\* C1: no signal (metadata-ready, data-ready, can-start, position-advanced,
\* ended, errored) emitted by the element of an earlier source, once the
\* element of a later source exists, changes readiness, durationSeconds,
\* positionSeconds or isPlaying.
C1_NoCrossTalk ==
    [][(event'.kind \in Signals /\ event'.stale)
         => UNCHANGED <<isReady, loading, duration, currentTime, isPlaying>>]_vars

\* urlA was loaded and replaced by urlB before any signal had set a duration,
\* and urlA's element has now emitted metadata-ready
C1_Witness ==
    /\ event.kind = "loadedmetadata" /\ event.stale
    /\ audioUrl = "urlB" /\ HandleIsLive
    /\ duration = 0 /\ ~isReady /\ loading

\* C2 (as claimed): in the state stopCapture leaves, and in the state the
\* unmount of the component leaves, no microphone stream obtained by the
\* recorder or by the frequency analyzer has a live track.
C2_MicrophoneReleased ==
    (event.kind \in {"stopRecording", "unmount"})
        => (/\ \A id \in DOMAIN streams : ~streams[id].live
            /\ visualizer.liveStreams = 0)

\* C3 (as claimed): whenever the current element first reports a finite
\* duration on a data-ready, can-start or position-advanced signal (positive,
\* for position-advanced), that signal sets durationSeconds and makes the
\* session ready, on the first load and on every later one.
C3_FallbackPrecedence ==
    [][(/\ event'.kind \in {"loadeddata", "canplay", "timeupdate"}
        /\ ~event'.stale
        /\ HandleIsLive
        /\ ~IsFiniteNumber(audioRef.duration)
        /\ Usable(event'.kind, audioRef'.duration))
         => (duration' = audioRef'.duration /\ isReady')]_vars

\* C4 (as claimed): when the current element emits errored, the resulting
\* readiness is Errored and isPlaying is false.
C4_ErrorStopsPlaying ==
    [][(event'.kind = "error" /\ ~event'.stale /\ HandleIsLive)
         => (Readiness' = "Errored" /\ ~isPlaying')]_vars

\* C5: togglePlayPause while readiness is not Ready changes no field of the
\* session and sends no play or pause request to the element.
C5_ToggleNoOpUnlessReady ==
    [][(event'.kind = "togglePlayPause" /\ Readiness # "Ready")
         => UNCHANGED <<audioUrl, isPlaying, currentTime, duration, isReady,
                        loading, volume, isMuted, audioRef, released,
                        audioVolume, audioMuted>>]_vars

\* the button was used while the session was Errored and still marked playing
C5_Witness ==
    /\ event.kind = "togglePlayPause"
    /\ Readiness = "Errored" /\ isPlaying /\ HandleIsLive

\* C6: when the element rejects a playback request, isPlaying is false
\* afterwards, and readiness, position, volume and mute are as before.
C6_RejectedPlayReverts ==
    [][(event'.kind = "playRejected")
         => (/\ ~isPlaying'
             /\ UNCHANGED <<isReady, loading, currentTime, duration, volume,
                            isMuted, audioVolume, audioMuted>>)]_vars

\* play() was accepted on a Ready session and the request was then rejected
C6_Witness ==
    /\ event.kind = "playRejected" /\ ~event.stale
    /\ Readiness = "Ready" /\ ~isPlaying
    /\ audioRef.paused /\ ~audioRef.playPending

\* C7: seek(f) changes nothing unless readiness is Ready and durationSeconds
\* > 0; otherwise the position, of the state and of the element, becomes
\* clamp(f,0,1) x durationSeconds, which lies in [0, durationSeconds], and
\* nothing else changes; seek(f) right after seek(f) leaves the position.
C7_Seek ==
    [][(event'.kind = "seek")
         => LET target == (ClampedClick(event'.arg) * duration) \div SeekDen
            IN /\ UNCHANGED <<audioUrl, isPlaying, duration, isReady, loading,
                              volume, isMuted, released, audioVolume, audioMuted>>
               /\ IF Readiness = "Ready" /\ duration > 0
                  THEN /\ currentTime' = target
                       /\ audioRef' = [audioRef EXCEPT !.currentTime = target]
                       /\ 0 <= currentTime' /\ currentTime' <= duration
                  ELSE UNCHANGED <<currentTime, audioRef>>
               /\ (event.kind = "seek" /\ event.arg = event'.arg)
                     => UNCHANGED <<currentTime, audioRef>>]_vars

\* a click in the middle of the bar moved a Ready session to mid-media
C7_Witness ==
    /\ event.kind = "seek" /\ event.arg > 0 /\ event.arg < SeekDen
    /\ Readiness = "Ready" /\ duration > 0
    /\ currentTime = (event.arg * duration) \div SeekDen
    /\ audioRef.currentTime = currentTime

C10_LoadCarriesVolume ==
    [][(event'.kind = "load" /\ audioUrl' # "")
         => (/\ volume' = volume /\ isMuted' = isMuted
             /\ audioVolume' = volume /\ audioMuted' = isMuted
             /\ audioRef' # Null /\ audioRef'.src = audioUrl'
             /\ Readiness' = "Loading"
             /\ ~isPlaying' /\ currentTime' = 0)]_vars

\* a later source was loaded over a session that was muted at a changed volume
C10_Witness ==
    /\ event.kind = "load" /\ audioUrl # "" /\ released # {}
    /\ isMuted /\ volume = VolumeMax
    /\ audioMuted /\ audioVolume = VolumeMax
    /\ duration > 0

\* C11 (as claimed): load("") builds no playback handle, and readiness is
\* not Ready afterwards, also when the previous source had reached Ready.
C11_EmptyLoadRejected ==
    [][(event'.kind = "load" /\ audioUrl' = "")
         => (/\ released' = released
             /\ ~(audioRef' # Null /\ audioRef'.listeners)
             /\ Readiness' # "Ready")]_vars

\* C12 (as claimed): once a signal of the current element has made the
\* session ready, fixing durationSeconds, no later metadata-ready, data-ready,
\* can-start or position-advanced signal of that element changes
\* durationSeconds or moves readiness away from Ready.
C12_FirstDurationWins ==
    [][(/\ event'.kind \in {"loadedmetadata", "loadeddata", "canplay",
                            "timeupdate"}
        /\ ~event'.stale
        /\ HandleIsLive /\ isReady)
         => (/\ duration' = duration
             /\ (Readiness = "Ready" => Readiness' = "Ready"))]_vars

\* C13 (as claimed): in every reachable state in which the session is not
\* ready, durationSeconds is the unset value 0, never a duration left over
\* from an earlier source.
C13_DurationUnknownUntilReady == ~isReady => duration = 0

\* C28 (as claimed): once the current element has emitted errored, readiness
\* is still Errored after any later signal of that element.
C28_ErroredFreezes ==
    [][(event.kind = "error" /\ ~event.stale /\ Readiness = "Errored"
        /\ event'.kind \in Signals /\ ~event'.stale
        /\ audioUrl' = audioUrl)
         => Readiness' = "Errored"]_vars

-----------------------------------------------------------------------------
(* Claims about the Capture & Visualization Engine                         *)

\* the recorder has run one session only, and no other start is under way
SoleSession == Len(streams) = 1 /\ startPending = 0

\* the blob of the sole session has just been handed over
SoleSessionDelivered == event.kind = "recorderStopped" /\ SoleSession

FirstSupported(sup) ==
    IF sup \cap Formats = {} THEN "default"
    ELSE formats[CHOOSE i \in DOMAIN formats :
                    /\ formats[i] \in sup
                    /\ \A j \in 1..(i - 1) : formats[j] \notin sup]

\* C15 (as claimed): on every runtime, the mime type of a delivered blob is
\* the negotiated type: the first supported entry of the priority list, or
\* the runtime default when none is supported.
C15_BlobTypeIsNegotiated ==
    artifact # NoArtifact
        => artifact.mimeType
             = [format |-> FirstSupported(runtime.supported), codecs |-> FALSE]

\* C15 (amended): on every runtime, the recorder is built for the first
\* supported entry of the priority list, or for the runtime default when none
\* is supported, and the blob carries the type that recorder reports: that
\* media type, to which the runtime may have added its codecs.
C15_BlobTypeOfRecorder ==
    /\ \A id \in DOMAIN streams :
         streams[id].mimeType.format = FirstSupported(runtime.supported)
    /\ artifact # NoArtifact
         => (/\ artifact.mimeType.format = FirstSupported(runtime.supported)
             /\ artifact.mimeType = streams[artifact.recorder].mimeType)

\* a runtime without WebM, Ogg and MP3 that records MP4 and FLAC: the blob
\* is MP4, with the codecs the runtime added
C15_Witness ==
    /\ event.kind = "recorderStopped"
    /\ runtime.supported = {"audio/mp4", "audio/flac"}
    /\ artifact.mimeType = [format |-> "audio/mp4", codecs |-> TRUE]

\* the non-empty chunks the recorder of stream id has delivered, in order
ChunksOf(id) == [i \in 1..streams[id].produced |-> id]

\* C16 (as claimed): the blob a recorder hands over at its stop is the
\* concatenation, in arrival order, of every non-empty chunk of its own
\* session, the final one included, and of no chunk of another session.
C16_BlobOfOwnSession ==
    event.kind = "recorderStopped"
        => artifact.chunks = ChunksOf(artifact.recorder)

\* C17: a denied or failed microphone request of startRecording leaves the
\* recorder as it was: the status, the elapsed seconds and the chunks are
\* unchanged, no timer and no recorder is started and no stream is obtained.
C17_DeniedStartAborts ==
    [][event'.kind = "microphoneDenied"
         => (/\ isRecording' = isRecording
             /\ recordingTime' = recordingTime
             /\ chunksRef' = chunksRef
             /\ timerRef' = timerRef /\ intervals' = intervals
             /\ mediaRecorderRef' = mediaRecorderRef
             /\ streamRef' = streamRef /\ streams' = streams
             /\ visualizer' = visualizer /\ vizPending' = vizPending
             /\ isStreaming' = isStreaming
             /\ audioContextRef' = audioContextRef
             /\ processorNodeRef' = processorNodeRef)]_vars

\* the first start of a recorder has been denied: it is idle and holds nothing
C17_Witness ==
    /\ event.kind = "microphoneDenied"
    /\ ~isRecording /\ recordingTime = 0 /\ chunksRef = <<>>
    /\ ~timerRef /\ intervals = 0
    /\ mediaRecorderRef = 0 /\ streamRef = 0 /\ streams = <<>>
    /\ startPending = 0

\* the state has been produced by a frame of the visualizer's loop
FrameProduced == event.kind \in {"frame", "visualizerGranted"}

\* every amplitude is within [5, 90]
AmplitudesConstrained ==
    \A idx \in 1..3 :
        /\ amplitudes[idx] >= amplitudeFloor * Scale
        /\ amplitudes[idx] <= amplitudeCeiling * Scale

\* C18: every frame sets bass, mid and treble within [5, 90], whatever the
\* snapshot and whatever the running maxima before it.
C18_FrameWithinLimits == FrameProduced => AmplitudesConstrained

\* a frame on a lone bass peak: bass is cut to 90, mid and treble raised to 5
C18_Witness ==
    /\ event.kind = "frame"
    /\ frame.raws = <<255, 0, 0>>
    /\ amplitudes = <<amplitudeCeiling * Scale, amplitudeFloor * Scale,
                      amplitudeFloor * Scale>>

\* the frames after which the claim expects the running maxima to have
\* converged: 1 / adaptationRate
ConvergenceFrames == 100 \div adaptationRatePercent

\* the distance, in amplitude units, within which a running maximum counts as
\* converged
Epsilon == 1

Distance(a, b) == IF a > b THEN a - b ELSE b - a

\* C19 (as claimed): when the band maxima have been constant at R for at
\* least 1 / adaptationRate frames, every running maximum is within Epsilon
\* of compress(R) * gain and the amplitudes are within [5, 90].
C19_RunningMaxConverges ==
    (FrameProduced /\ frame.run >= ConvergenceFrames)
        => (/\ \A idx \in 1..3 :
                 Distance(recentMaxValues[idx],
                          GainedValue(frame.raws[idx], idx))
                     <= Epsilon * Scale
            /\ AmplitudesConstrained)

\* C24 (as claimed): while the recorder is not recording, no update callback
\* of the visualizer is pending, whatever the order in which the recording
\* state changed and the visualizer's microphone request was granted.
C24_NoCallbackWhileIdle == ~isRecording => visualizer.callbacks = 0

\* C25 (as claimed): at most one update callback of the visualizer is
\* pending at any time.
C25_OneCallbackPending == visualizer.callbacks <= 1

\* C26 (as claimed): while the recorder is not recording, no interval
\* started by a startRecording is running, also after a start made while an
\* earlier one was waiting for the microphone.
C26_NoTimerWhileIdle == ~isRecording => intervals = 0

\* C27 (as claimed): when stopRecording has stopped the visualization, every
\* running maximum is 0.
C27_HistoryResetOnStop ==
    event.kind = "stopRecording" => recentMaxValues = <<0, 0, 0>>

\* the running maximum at which adaptiveGain scales by 80 / maxVal < 1
Reduces(maxVal) == maxVal > reductionThreshold * Scale

\* 100 x the gain of a band: 120, 170, 220
GainLimit(idx) == (100 * Scale * gainsTenths[idx]) \div 10

\* C31: from one frame to the next no band's running maximum decreases, each
\* stays at or below 100 x the gain of its band (120, 170, 220), and a
\* running maximum above 80, for which adaptiveGain scales by less than 1,
\* remains above 80.
C31_RunningMaxMonotone ==
    [][\A idx \in 1..3 :
          /\ recentMaxValues'[idx] >= recentMaxValues[idx]
          /\ recentMaxValues'[idx] <= GainLimit(idx)
          /\ Reduces(recentMaxValues[idx]) => Reduces(recentMaxValues'[idx])]_vars

\* a frame on a quieter snapshot that leaves the treble running maximum
\* where it was, above 80 and below 220
C31_Witness ==
    /\ event.kind = "frame"
    /\ frame.changes > 0
    /\ GainedValue(frame.raws[3], 3) < recentMaxValues[3]
    /\ Reduces(recentMaxValues[3])
    /\ recentMaxValues[3] < GainLimit(3)

-----------------------------------------------------------------------------
(* Claims about the Transcription Gateway                                  *)

\* the call under way was made with a file and without useTestAudio, and the
\* provider has rejected its file
PayloadRejected ==
    /\ gateway.audioFile # NoFile /\ ~gateway.useTestAudio
    /\ gateway.calls # <<>>
    /\ gateway.calls[1].outcome = "rejected"

\* C20: when the provider rejects the file of a call made with a real file,
\* the gateway makes exactly one further call of the provider, on the test
\* audio, and if that call succeeds it returns a result without an error
\* whose text is the provider's text followed by the disclaimer.
C20_FallbackOnRejection ==
    PayloadRejected
        => (/\ Len(gateway.calls) = 2
            /\ gateway.calls[2].audio = <<TEST_MP3_URL>>
            /\ gateway.calls[2].outcome = "resolved"
                 => (/\ gateway.pc = "returned"
                     /\ gateway.result.error = <<>>
                     /\ Len(gateway.result.text) = 2
                     /\ gateway.result.text[2] = Disclaimer))

\* a rejected recording whose fallback call has succeeded
C20_Witness ==
    /\ PayloadRejected
    /\ gateway.calls[1].audio = <<"audio", "webm">>
    /\ gateway.calls[2].outcome = "resolved"
    /\ gateway.result = [text |-> <<"hello", Disclaimer>>, error |-> <<>>]

\* the call under way was made with useTestAudio and without a file
FlagOnly == gateway.useTestAudio /\ gateway.audioFile = NoFile

\* C21 (as claimed): a call made with useTestAudio and no file returns a
\* result without an error, unless the provider rejected the test audio.
C21_FlagOnlySucceeds ==
    (FlagOnly /\ gateway.pc = "returned")
        => \/ gateway.result.error = <<>> /\ gateway.result.text # <<>>
           \/ /\ gateway.calls # <<>>
              /\ gateway.calls[Len(gateway.calls)].outcome = "rejected"

\* C22: transcribeAudio never throws: every call that has ended has returned,
\* and what it returned is either a text without an error or an error without
\* a text, whatever the form data and whatever the provider answered.
C22_NeverThrows ==
    /\ gateway.pc \in {"idle", "fileCall", "testCall", "fallbackCall",
                       "returned"}
    /\ gateway.pc = "returned"
         => (gateway.result.error = <<>>) # (gateway.result.text = <<>>)

\* the provider has rejected the file and then the test audio: the error of
\* the second rejection is returned
C22_Witness ==
    /\ PayloadRejected
    /\ gateway.calls[2].outcome = "rejected"
    /\ gateway.pc = "returned"
    /\ gateway.result =
         [text |-> <<>>,
          error |-> <<"Failed to transcribe audio: ", "fetch failed">>]

-----------------------------------------------------------------------------
(* Claims about the page                                                   *)

\* the file extensions that name the container of a recorder's format
ContainerExtensions(format) ==
    CASE format = "audio/webm" -> {"webm"}
      [] format \in {"audio/ogg", "audio/ogg;codecs=opus", "audio/oga"}
           -> {"ogg", "oga"}
      [] format \in {"audio/mp3", "audio/mpeg", "audio/mpga"}
           -> {"mp3", "mpga"}
      [] format \in {"audio/mp4", "audio/m4a"} -> {"mp4", "m4a"}
      [] format = "audio/wav" -> {"wav"}
      [] format = "audio/flac" -> {"flac"}
      [] OTHER -> {}

\* C23 (as claimed): the download name of a delivered blob whose recorder was
\* built for one of the formats of the priority list has the extension of
\* that format's container.
C23_DownloadNamedByContainer ==
    (artifact # NoArtifact /\ artifact.mimeType.format \in Formats)
        => downloadName(artifact.mimeType)[2]
             \in ContainerExtensions(artifact.mimeType.format)

\* C29 (as claimed): isProcessing is true in every state in which a request
\* of transcribeAudio is under way.
C29_ProcessingWhileInFlight ==
    (mounted /\ page.requests # <<>>) => isProcessing

\* C30 (as claimed): the page never holds an error together with a
\* transcription.
C30_ErrorOrTranscription ==
    ~(page.error # <<>> /\ page.transcription # <<>>)

=============================================================================
